---- MODULE Spec2Model ----
(***************************************************************************)
(* Model of main.py: the incident-triage chatbot.  One process holds the   *)
(* shared conversation state (app.message_history, app.system_information) *)
(* and serves four routes.  The streaming route hands the client an async  *)
(* generator (empty_response or ai_response_generator) that runs on the    *)
(* event loop; api_index is a plain def and runs on a worker thread.       *)
(*                                                                         *)
(* Text is a sequence of atoms: each literal of the source is one atom,    *)
(* user-supplied text is a sequence of its own atoms, and + is \o.         *)
(***************************************************************************)
EXTENDS Integers, Sequences, FiniteSets, TLC

\* ---------------------------------------------------------------- bounds
MaxRelays   == 2    \* streaming requests accepted in one run
MaxRequests == 2    \* HTTP requests received in one run
MaxChunks   == 2    \* chunks the upstream streams deliver in one run
MaxWakes    == 1    \* heartbeat timers that expire in one run
MaxHistory  == 2    \* entries of a history handed to the Prompt Assembler on its own

\* ---------------------------------------------------------------- inputs
Empty == <<>>
NoneText == <<"None">>

\* the i-th streaming request asks for its own prompt or for the literal "None"
Words == <<"a", "b", "c", "d">>
Prompts(i) == {<<Words[((i - 1) % Len(Words)) + 1]>>, NoneText}

\* chunk.choices[0].delta.content of the k-th chunk of a stream: absent (None),
\* empty, or a token
Tokens == <<"Hello", " world", "!", "?">>
Chunks(k) == {[has |-> FALSE, content |-> Empty],
             [has |-> TRUE,  content |-> Empty],
             [has |-> TRUE,  content |-> <<Tokens[((k - 1) % Len(Tokens)) + 1]>>]}

\* query strings of the onboarding form
Forms == {[systems_used |-> <<"A">>, initial_observations |-> <<"B">>, initial_errors |-> <<"C">>],
          [systems_used |-> <<"D">>, initial_observations |-> Empty,   initial_errors |-> <<"F">>]}

\* URL paths, as the sequence of their /-separated segments
Seg(s) == <<s>>
PathApi == <<Seg("api"), Empty>>                                \* /api/
PathInitial == <<Seg("initial_information")>>                   \* /initial_information
PathApiInitial == <<Seg("api"), Seg("initial_information")>>    \* /api/initial_information
PathSse(p) == <<Seg("api"), Seg("sse"), p>>                     \* /api/sse/<p>
Paths(i) == {PathApi, PathInitial, PathApiInitial} \cup {PathSse(p) : p \in Prompts(i) \cup {Empty}}

NoRequest == [path |-> <<>>]

Relays == 1..MaxRelays

\* ---------------------------------------------------------------- state
VARIABLES
  message_history,     \* app.message_history
  system_information,  \* app.system_information
  nrelays,             \* generators created so far; relay r is the r-th streaming request
  kind,                \* kind[r]: which generator serves relay r
  pc,                  \* pc[r]: where generator r stands
  prompt,              \* prompt[r]
  output,              \* output[r]
  msg,                 \* msg[r]
  mistral_messages,    \* mistral_messages[r]: what was sent upstream
  chunks,              \* chunks[r]: the chunks the upstream stream delivered, in arrival order
  log,                 \* log[r]: what generator r did that the outside can see, in order
  running,             \* the generator that holds the event loop thread, 0 if none
  request,             \* the HTTP request this step served, NoRequest for a generator step
  nreq,                \* HTTP requests received
  submissions,         \* onboarding forms received by update_initial_information
  resets,              \* page requests with reset=true served
  interrupted          \* the relays that were generating when a reset was served

vars == <<message_history, system_information, nrelays, kind, pc, prompt, output, msg,
          mistral_messages, chunks, log, running, request, nreq, submissions, resets, interrupted>>

shared == <<message_history, system_information>>
relayvars == <<nrelays, kind, pc, prompt, output, msg, mistral_messages, chunks, log, running>>

\* ---------------------------------------------------------------- text and frames
KeySystems == "Systems being used"
KeyObservations == "Initial Observations"
KeyErrors == "Initial Error messages"
Keys == {KeySystems, KeyObservations, KeyErrors}

\* JSON string escaping of one atom
JsonEscapeAtom(a) == IF a = "\n" THEN "\\n" ELSE IF a = "\n\n" THEN "\\n\\n" ELSE a
JsonEscape(text) == [i \in 1..Len(text) |-> JsonEscapeAtom(text[i])]

\* FastUI(root=[c.Markdown(text=text)]).model_dump_json(by_alias=True, exclude_none=True)
model_dump_json(text) == <<"[{\"text\":\"">> \o JsonEscape(text) \o <<"\",\"type\":\"Markdown\"}]">>

\* f'data: {...}\n\n'
Frame(text) == <<"data: ">> \o model_dump_json(text) \o <<"\n\n">>

\* output = f"**User:** {prompt}\n\n" ; output += f"**Chatbot:** "
InitialOutput(p) == (<<"**User:** ">> \o p \o <<"\n\n">>) \o <<"**Chatbot:** ">>

\* chunk.choices[0].delta.content or ""
Token(chunk) == IF chunk.has THEN chunk.content ELSE Empty

AddToken_Delta(out, token) == token

\* output += token
AddToken(out, token) == out \o token

\* the for loop over app.message_history
RECURSIVE history_loop(_, _)
history_loop(template, hist) ==
  IF hist = <<>> THEN template
  ELSE history_loop(template \o Head(hist).message \o <<"\n">>, Tail(hist))

ReverseSeq(q) == [i \in 1..Len(q) |-> q[Len(q) + 1 - i]]
PromptTemplate_Reversed(hist, p) ==
  history_loop(<<"Previous messages:\n">>, ReverseSeq(hist)) \o (<<"Human: ">> \o p)

PromptTemplate(hist, p) == history_loop(<<"Previous messages:\n">>, hist) \o (<<"Human: ">> \o p)

SystemMessage == <<"Your job is to help software developers and system engineers to fix and report major incidents for their systems.">>

ChatMessage(role, content) == [role |-> role, content |-> content]

\* the answers to the second and third question exchanged
MistralMessages_Swapped(info, hist, p) ==
  << ChatMessage("system", SystemMessage),
     ChatMessage("assistant", <<"What systems are you using for your Application?">>),
     ChatMessage("user", info[KeySystems]),
     ChatMessage("assistant", <<"What are your initial observations for you incident?">>),
     ChatMessage("user", info[KeyErrors]),
     ChatMessage("assistant", <<"Have you had any initial error messages?">>),
     ChatMessage("user", info[KeyObservations]),
     ChatMessage("user", PromptTemplate(hist, p)) >>

MistralMessages(info, hist, p) ==
  << ChatMessage("system", SystemMessage),
     ChatMessage("assistant", <<"What systems are you using for your Application?">>),
     ChatMessage("user", info[KeySystems]),
     ChatMessage("assistant", <<"What are your initial observations for you incident?">>),
     ChatMessage("user", info[KeyObservations]),
     ChatMessage("assistant", <<"Have you had any initial error messages?">>),
     ChatMessage("user", info[KeyErrors]),
     ChatMessage("user", PromptTemplate(hist, p)) >>

MessageHistoryModel(text) == [message |-> text]

AppendHistory_Twice(hist, out) == Append(Append(hist, MessageHistoryModel(out)), MessageHistoryModel(out))
AppendHistory_Prepend(hist, out) == <<MessageHistoryModel(out)>> \o hist

\* app.message_history.append(message)
AppendHistory(hist, out) == Append(hist, MessageHistoryModel(out))

ResetHistory_Ignored(hist, reset) == hist

\* if reset: app.message_history = []
ResetHistory(hist, reset) == IF reset THEN <<>> ELSE hist

SetInformation_Swapped(info, form) ==
  [k \in Keys |-> IF k = KeySystems THEN form.systems_used
                  ELSE IF k = KeyObservations THEN form.initial_errors
                  ELSE form.initial_observations]
SetInformation_Partial(info, form) ==
  [k \in Keys |-> IF k = KeySystems THEN form.systems_used
                  ELSE IF k = KeyObservations THEN form.initial_observations
                  ELSE info[k]]

\* the three assignments of update_initial_information
SetInformation(info, form) ==
  [k \in Keys |-> IF k = KeySystems THEN form.systems_used
                  ELSE IF k = KeyObservations THEN form.initial_observations
                  ELSE form.initial_errors]

\* prompt is None or prompt == '' or prompt == 'None'
IsEmptyPrompt(p) == p = Empty \/ p = NoneText

EmptyMessage_None == Frame(NoneText)

\* the empty generator's message
EmptyMessage == Frame(Empty)

HeartbeatFrame_Blank(m) == Frame(Empty)

\* while True: yield msg
HeartbeatFrame(m) == m

\* Route matching, in the order the routes are registered.  A path parameter
\* {prompt} matches one non-empty segment; {path:path} matches anything.
Route(path) ==
  IF path = PathApi THEN "api_index"
  ELSE IF path = PathInitial THEN "update_initial_information"
  ELSE IF Len(path) = 3 /\ path[1] = Seg("api") /\ path[2] = Seg("sse") /\ path[3] # Empty
       THEN "sse_ai_response"
  ELSE "html_landing"

\* ---------------------------------------------------------------- log
Event(k, data) == [kind |-> k, data |-> data]
Emit(r, es) == log' = [log EXCEPT ![r] = @ \o es]
Count(r, k) == Cardinality({i \in 1..Len(log[r]) : log[r][i].kind = k})

RECURSIVE Sum(_, _)
Sum(f, S) == IF S = {} THEN 0 ELSE LET x == CHOOSE y \in S : TRUE IN f[x] + Sum(f, S \ {x})
TotalChunks == Sum([r \in Relays |-> Len(chunks[r])], Relays)
\* a loop that yields without sleeping
Heartbeat_NoSleep(m) == <<Event("heartbeat", HeartbeatFrame(m))>>

\* yield msg; await asyncio.sleep(10)
Heartbeat(m) == <<Event("heartbeat", HeartbeatFrame(m)), Event("sleep", Empty)>>
TotalWakes == Sum([r \in Relays |-> Count(r, "wake")], Relays)

\* ---------------------------------------------------------------- initial state
Init ==
  /\ message_history = <<>>
  /\ system_information = [k \in Keys |-> Empty]
  /\ nrelays = 0
  /\ kind = [r \in Relays |-> "none"]
  /\ pc = [r \in Relays |-> "unused"]
  /\ prompt = [r \in Relays |-> Empty]
  /\ output = [r \in Relays |-> Empty]
  /\ msg = [r \in Relays |-> Empty]
  /\ mistral_messages = [r \in Relays |-> <<>>]
  /\ chunks = [r \in Relays |-> <<>>]
  /\ log = [r \in Relays |-> <<>>]
  /\ running = 0
  /\ request = NoRequest
  /\ nreq = 0
  /\ submissions = {}
  /\ resets = 0
  /\ interrupted = {}

\* ---------------------------------------------------------------- HTTP handlers
Receive(path, query) ==
  /\ nreq < MaxRequests
  /\ nreq' = nreq + 1
  /\ request' = [path |-> path, query |-> query]

\* GET /api/ : a plain def, served on a worker thread whatever the event loop does.
\* The chat parameter only reaches the returned page (the path of its ServerLoad).
api_index(path, reset) ==
  /\ Route(path) = "api_index"
  /\ Receive(path, [reset |-> reset])
  /\ message_history' = ResetHistory(message_history, reset)
  /\ resets' = IF reset THEN resets + 1 ELSE resets
  /\ interrupted' = IF reset THEN interrupted \cup {r \in Relays : pc[r] \in {"stream", "yielded"}}
                    ELSE interrupted
  /\ UNCHANGED <<system_information, relayvars, submissions>>

\* GET /initial_information
update_initial_information(path, form) ==
  /\ Route(path) = "update_initial_information"
  /\ running = 0
  /\ Receive(path, form)
  /\ system_information' = SetInformation(system_information, form)
  /\ submissions' = submissions \cup {form}
  /\ UNCHANGED <<message_history, relayvars, resets, interrupted>>

\* GET /api/sse/{prompt}
sse_ai_response(path) ==
  /\ Route(path) = "sse_ai_response"
  /\ running = 0
  /\ nrelays < MaxRelays
  /\ Receive(path, [prompt |-> path[3]])
  /\ nrelays' = nrelays + 1
  /\ kind' = [kind EXCEPT ![nrelays + 1] =
                IF IsEmptyPrompt(path[3]) THEN "empty_response" ELSE "ai_response_generator"]
  /\ pc' = [pc EXCEPT ![nrelays + 1] = "created"]
  /\ prompt' = [prompt EXCEPT ![nrelays + 1] = path[3]]
  /\ UNCHANGED <<shared, output, msg, mistral_messages, chunks, log, running, submissions, resets, interrupted>>

\* GET /{path:path}
html_landing(path, query) ==
  /\ Route(path) = "html_landing"
  /\ running = 0
  /\ Receive(path, query)
  /\ UNCHANGED <<shared, relayvars, submissions, resets, interrupted>>

\* ---------------------------------------------------------------- empty_response
\* an empty path that recorded its empty exchange
empty_first_Append(r) ==
  /\ kind[r] = "empty_response" /\ pc[r] = "created" /\ running = 0
  /\ msg' = [msg EXCEPT ![r] = EmptyMessage]
  /\ Emit(r, <<Event("first", msg'[r])>>)
  /\ pc' = [pc EXCEPT ![r] = "first_yielded"]
  /\ request' = NoRequest
  /\ message_history' = AppendHistory(message_history, Empty)
  /\ UNCHANGED <<system_information, nrelays, kind, prompt, output, mistral_messages, chunks,
                 running, nreq, submissions, resets, interrupted>>

\* m = ...; msg = ...; yield msg
empty_first(r) ==
  /\ kind[r] = "empty_response" /\ pc[r] = "created" /\ running = 0
  /\ msg' = [msg EXCEPT ![r] = EmptyMessage]
  /\ Emit(r, <<Event("first", msg'[r])>>)
  /\ pc' = [pc EXCEPT ![r] = "first_yielded"]
  /\ request' = NoRequest
  /\ UNCHANGED <<shared, nrelays, kind, prompt, output, mistral_messages, chunks, running,
                 nreq, submissions, resets, interrupted>>

\* one iteration of while True: yield msg; await asyncio.sleep(10).  It is
\* entered when the consumer comes back after the first frame, and again each
\* time the timer of the previous iteration expires.
empty_heartbeat(r) ==
  /\ kind[r] = "empty_response" /\ running = 0
  /\ \/ pc[r] = "first_yielded" /\ Emit(r, Heartbeat(msg[r]))
     \/ pc[r] = "sleeping" /\ TotalWakes < MaxWakes /\ Emit(r, <<Event("wake", Empty)>> \o Heartbeat(msg[r]))
  /\ pc' = [pc EXCEPT ![r] = "sleeping"]
  /\ request' = NoRequest
  /\ UNCHANGED <<shared, nrelays, kind, prompt, output, msg, mistral_messages, chunks, running,
                 nreq, submissions, resets, interrupted>>

\* ---------------------------------------------------------------- ai_response_generator
\* from the first line to the opening of the upstream stream
ai_start(r) ==
  /\ kind[r] = "ai_response_generator" /\ pc[r] = "created" /\ running = 0
  /\ output' = [output EXCEPT ![r] = InitialOutput(prompt[r])]
  /\ msg' = [msg EXCEPT ![r] = Empty]
  /\ mistral_messages' = [mistral_messages EXCEPT ![r] =
                            MistralMessages(system_information, message_history, prompt[r])]
  /\ pc' = [pc EXCEPT ![r] = "stream"]
  /\ running' = r
  /\ request' = NoRequest
  /\ UNCHANGED <<shared, nrelays, kind, prompt, chunks, log, nreq, submissions, resets, interrupted>>

\* one iteration of the for loop over the upstream stream.  The client is
\* synchronous: the generator keeps the event loop until it yields a frame.
ai_chunk(r, chunk) ==
  /\ pc[r] = "stream" /\ running = r
  /\ TotalChunks < MaxChunks
  /\ chunks' = [chunks EXCEPT ![r] = Append(@, chunk)]
  /\ request' = NoRequest
  /\ IF Token(chunk) # Empty
     THEN /\ output' = [output EXCEPT ![r] = AddToken(@, Token(chunk))]
          /\ msg' = [msg EXCEPT ![r] = Frame(output'[r])]
          /\ Emit(r, <<Event("content", msg'[r])>>)
          /\ pc' = [pc EXCEPT ![r] = "yielded"]
          /\ running' = 0
     ELSE UNCHANGED <<output, msg, log, pc, running>>
  /\ UNCHANGED <<shared, nrelays, kind, prompt, mistral_messages, nreq, submissions, resets, interrupted>>

\* the consumer asks for the next frame: back into the for loop
ai_resume(r) ==
  /\ kind[r] = "ai_response_generator" /\ pc[r] = "yielded" /\ running = 0
  /\ pc' = [pc EXCEPT ![r] = "stream"]
  /\ running' = r
  /\ request' = NoRequest
  /\ UNCHANGED <<shared, nrelays, kind, prompt, output, msg, mistral_messages, chunks, log,
                 nreq, submissions, resets, interrupted>>

\* what a handler that flushed the partial output on failure would do
upstream_error_Flush(r) ==
  /\ pc[r] = "stream" /\ running = r
  /\ message_history' = AppendHistory(message_history, output[r])
  /\ pc' = [pc EXCEPT ![r] = "aborted"]
  /\ running' = 0
  /\ request' = NoRequest
  /\ UNCHANGED <<system_information, nrelays, kind, prompt, output, msg, mistral_messages,
                 chunks, log, nreq, submissions, resets, interrupted>>

\* the upstream stream raises: the exception leaves the generator
upstream_error(r) ==
  /\ pc[r] = "stream" /\ running = r
  /\ pc' = [pc EXCEPT ![r] = "aborted"]
  /\ running' = 0
  /\ request' = NoRequest
  /\ UNCHANGED <<shared, nrelays, kind, prompt, output, msg, mistral_messages, chunks, log,
                 nreq, submissions, resets, interrupted>>

\* what a reset that cancelled the running relays would leave of a completion
ai_complete_Cancelled(r) ==
  /\ pc[r] = "stream" /\ running = r
  /\ message_history' = IF r \in interrupted THEN message_history
                        ELSE AppendHistory(message_history, output[r])
  /\ Emit(r, <<Event("append", output[r])>>)
  /\ pc' = [pc EXCEPT ![r] = "heartbeat"]
  /\ request' = NoRequest
  /\ UNCHANGED <<system_information, nrelays, kind, prompt, output, msg, mistral_messages,
                 chunks, running, nreq, submissions, resets, interrupted>>

\* the stream ends: message = MessageHistoryModel(message=output); append
ai_complete(r) ==
  /\ pc[r] = "stream" /\ running = r
  /\ message_history' = AppendHistory(message_history, output[r])
  /\ Emit(r, <<Event("append", message_history'[Len(message_history')].message)>>)
  /\ pc' = [pc EXCEPT ![r] = "heartbeat"]
  /\ request' = NoRequest
  /\ UNCHANGED <<system_information, nrelays, kind, prompt, output, msg, mistral_messages,
                 chunks, running, nreq, submissions, resets, interrupted>>

\* one iteration of while True: yield msg; await asyncio.sleep(10).  It is
\* entered straight from the append, and again each time the timer of the
\* previous iteration expires.
ai_heartbeat(r) ==
  /\ kind[r] = "ai_response_generator"
  /\ \/ pc[r] = "heartbeat" /\ running = r /\ Emit(r, Heartbeat(msg[r]))
     \/ /\ pc[r] = "sleeping" /\ running = 0 /\ TotalWakes < MaxWakes
        /\ Emit(r, <<Event("wake", Empty)>> \o Heartbeat(msg[r]))
  /\ pc' = [pc EXCEPT ![r] = "sleeping"]
  /\ running' = 0
  /\ request' = NoRequest
  /\ UNCHANGED <<shared, nrelays, kind, prompt, output, msg, mistral_messages, chunks,
                 nreq, submissions, resets, interrupted>>

\* ---------------------------------------------------------------- specification
Next ==
  \/ \E path \in Paths(nrelays + 1), reset \in BOOLEAN : api_index(path, reset)
  \/ \E path \in Paths(nrelays + 1), form \in Forms : update_initial_information(path, form)
  \/ \E path \in Paths(nrelays + 1) : sse_ai_response(path)
  \/ \E path \in Paths(nrelays + 1), query \in Forms : html_landing(path, query)
  \/ \E r \in Relays : empty_first(r)
  \/ \E r \in Relays : empty_heartbeat(r)
  \/ \E r \in Relays : ai_start(r)
  \/ \E r \in Relays : \E chunk \in Chunks(Len(chunks[r]) + 1) : ai_chunk(r, chunk)
  \/ \E r \in Relays : ai_resume(r)
  \/ \E r \in Relays : upstream_error(r)
  \/ \E r \in Relays : ai_complete(r)
  \/ \E r \in Relays : ai_heartbeat(r)

Spec == Init /\ [][Next]_vars

\* The event loop runs every generator that is ready and asks for its next
\* frame as long as the client stays connected.  Nothing makes the upstream
\* stream deliver, end or fail: chat_stream is called without a timeout.
EventLoop(r) ==
  /\ WF_vars(empty_first(r))
  /\ WF_vars(empty_heartbeat(r))
  /\ WF_vars(ai_start(r))
  /\ WF_vars(ai_resume(r))
  /\ WF_vars(ai_heartbeat(r))

SpecLive == Spec /\ \A r \in Relays : EventLoop(r)

\* The Prompt Assembler on its own: the first lines of ai_response_generator
\* applied to any history, any onboarding answers and any prompt.
Entries == {MessageHistoryModel(<<"X">>), MessageHistoryModel(<<"Y">>)}
Histories == UNION {[1..n -> Entries] : n \in 0..MaxHistory}
Informations == {[k \in Keys |-> Empty]} \cup {SetInformation([k \in Keys |-> Empty], f) : f \in Forms}

InitAssembler ==
  /\ message_history \in Histories
  /\ system_information \in Informations
  /\ nrelays = 1
  /\ kind = [r \in Relays |-> IF r = 1 THEN "ai_response_generator" ELSE "none"]
  /\ pc = [r \in Relays |-> IF r = 1 THEN "created" ELSE "unused"]
  /\ prompt \in {[r \in Relays |-> IF r = 1 THEN p ELSE Empty] : p \in {<<"Z">>, <<"a">>, <<"b">>}}
  /\ output = [r \in Relays |-> Empty]
  /\ msg = [r \in Relays |-> Empty]
  /\ mistral_messages = [r \in Relays |-> <<>>]
  /\ chunks = [r \in Relays |-> <<>>]
  /\ log = [r \in Relays |-> <<>>]
  /\ running = 0
  /\ request = NoRequest
  /\ nreq = 0
  /\ submissions = {}
  /\ resets = 0
  /\ interrupted = {}

NextAssembler == \E r \in Relays : ai_start(r)

SpecAssembler == InitAssembler /\ [][NextAssembler]_vars

\* ---------------------------------------------------------------- vocabulary of the properties
AiSeq == SelectSeq([i \in 1..nrelays |-> i], LAMBDA r : kind[r] = "ai_response_generator")
EmptyRelays == {r \in Relays : kind[r] = "empty_response"}
AiRelays == {r \in Relays : kind[r] = "ai_response_generator"}

\* the generator is past its append
Completed(r) == pc[r] \in {"heartbeat", "sleeping"} /\ kind[r] = "ai_response_generator"

StartsWith(text, prefix) == Len(prefix) <= Len(text) /\ SubSeq(text, 1, Len(prefix)) = prefix

\* positions of the events of one kind in the log of r, and those events in order
Positions(r, k) == {i \in 1..Len(log[r]) : log[r][i].kind = k}
Events(r, k) == SelectSeq(log[r], LAMBDA e : e.kind = k)
Frames(r) == SelectSeq(log[r], LAMBDA e : e.kind \in {"first", "content", "heartbeat"})

\* what a client reads in a frame: the text of the Markdown component of the
\* JSON document of a "data:" event that a blank line ends
JsonUnescapeAtom(a) == IF a = "\\n" THEN "\n" ELSE IF a = "\\n\\n" THEN "\n\n" ELSE a
Renders(frame, text) ==
  /\ Len(frame) >= 4
  /\ frame[1] = "data: "
  /\ frame[2] = "[{\"text\":\""
  /\ frame[Len(frame) - 1] = "\",\"type\":\"Markdown\"}]"
  /\ frame[Len(frame)] = "\n\n"
  /\ [i \in 1..(Len(frame) - 4) |-> JsonUnescapeAtom(frame[i + 2])] = text

\* the contents of the first k chunks that carry text, concatenated
RECURSIVE Accumulated(_, _)
Accumulated(cs, k) ==
  IF k = 0 \/ cs = <<>> THEN <<>>
  ELSE IF Head(cs).has /\ Head(cs).content # <<>>
       THEN Head(cs).content \o Accumulated(Tail(cs), k - 1)
       ELSE Accumulated(Tail(cs), k)
NonEmpty(cs) == Cardinality({i \in 1..Len(cs) : cs[i].has /\ cs[i].content # <<>>})
Header(p) == <<"**User:** ">> \o p \o <<"\n\n", "**Chatbot:** ">>

\* ---------------------------------------------------------------- C1
\* C1: with no reset, once every relay submitted so far has completed normally,
\* the history has one entry per relay and the i-th entry starts with
\* "**User:** " + the prompt of the i-th relay submitted.
C1_SubmissionOrder ==
  (resets = 0 /\ Len(AiSeq) > 0 /\ \A i \in 1..Len(AiSeq) : Completed(AiSeq[i]))
    => /\ Len(message_history) = Len(AiSeq)
       /\ \A i \in 1..Len(AiSeq) :
            StartsWith(message_history[i].message, <<"**User:** ">> \o prompt[AiSeq[i]])

\* ---------------------------------------------------------------- C2
\* C2: a page request with reset=true leaves the history empty and the
\* onboarding fields as they were; with reset=false it changes neither.
C2_ResetFrame ==
  [][(nreq' = nreq + 1 /\ request'.path = PathApi)
       => /\ system_information' = system_information
          /\ IF request'.query.reset THEN message_history' = <<>>
             ELSE message_history' = message_history]_vars

\* a reset has just cleared a history that held an entry
C2_Witness ==
  /\ request.path = PathApi /\ request.query.reset
  /\ message_history = <<>>
  /\ \E r \in Relays : Positions(r, "append") # {}

\* ---------------------------------------------------------------- C3
\* C3: a relay whose stream completed has appended exactly one entry; the entry
\* is the header plus all non-empty tokens in arrival order; every content
\* frame precedes the append and every heartbeat frame follows it.  A relay
\* whose stream has not completed has appended nothing.
C3_AppendOnCompletion ==
  /\ \A r \in AiRelays :
       IF Completed(r)
       THEN /\ Cardinality(Positions(r, "append")) = 1
            /\ \A a \in Positions(r, "append") :
                 /\ log[r][a].data = Header(prompt[r]) \o Accumulated(chunks[r], Len(chunks[r]))
                 /\ \A i \in Positions(r, "content") : i < a
                 /\ \A i \in Positions(r, "heartbeat") : i > a
       ELSE Positions(r, "append") = {}
  /\ resets = 0 => Len(message_history) = Cardinality({r \in AiRelays : Completed(r)})

\* a completed relay that sent a content frame and then a heartbeat
C3_Witness ==
  \E r \in AiRelays : Completed(r) /\ Positions(r, "content") # {} /\ Positions(r, "heartbeat") # {}

\* ---------------------------------------------------------------- C4
\* C4: the content frames of a relay are one per chunk with non-empty content,
\* and the k-th renders the header plus the first k non-empty tokens.
C4_AccumulatedFrames ==
  \A r \in AiRelays :
    LET fs == Events(r, "content") IN
    /\ Len(fs) = NonEmpty(chunks[r])
    /\ \A k \in 1..Len(fs) : Renders(fs[k].data, Header(prompt[r]) \o Accumulated(chunks[r], k))

\* two content frames, the second carrying both tokens
C4_Witness ==
  \E r \in AiRelays : Len(Events(r, "content")) = 2 /\ chunks[r][1] # chunks[r][2]

\* a chunk without content went by and a later one was rendered
C4_SkipWitness ==
  \E r \in AiRelays : Len(chunks[r]) = 2 /\ Token(chunks[r][1]) = Empty /\ Len(Events(r, "content")) = 1

\* ---------------------------------------------------------------- C5
\* C5: every heartbeat frame of a relay that emitted a content frame is that
\* relay's last content frame, unchanged.
C5_HeartbeatIsLastFrame ==
  \A r \in AiRelays :
    LET fs == Events(r, "content") IN
    Len(fs) > 0 => \A i \in Positions(r, "heartbeat") : log[r][i].data = fs[Len(fs)].data

\* a relay with content frames is in its second heartbeat interval
C5_Witness ==
  \E r \in AiRelays : Len(Events(r, "content")) > 0 /\ Cardinality(Positions(r, "heartbeat")) = 2

RECURSIVE Replay(_)
Replay(h) ==
  IF h = <<>> THEN <<>>
  ELSE Replay(SubSeq(h, 1, Len(h) - 1)) \o h[Len(h)].message \o <<"\n">>

Started(r) == pc[r] = "created" /\ pc'[r] = "stream"

\* C7: the last message a relay sends upstream has user role and content
\* "Previous messages:\n" + h1 + "\n" + ... + hk + "\n" + "Human: " + prompt,
\* for the history [h1..hk] at the time the relay starts.
C7_FinalMessage ==
  [][\A r \in Relays : Started(r) =>
       LET ms == mistral_messages'[r] IN
       /\ Len(ms) > 0
       /\ ms[Len(ms)].role = "user"
       /\ ms[Len(ms)].content =
            <<"Previous messages:\n">> \o Replay(message_history) \o <<"Human: ">> \o prompt[r]]_vars

\* history ["X","Y"] and prompt "Z" gave "Previous messages:\nX\nY\nHuman: Z"
C7_Witness ==
  \E r \in Relays :
    /\ pc[r] = "stream"
    /\ message_history = <<MessageHistoryModel(<<"X">>), MessageHistoryModel(<<"Y">>)>>
    /\ prompt[r] = <<"Z">>
    /\ mistral_messages[r][Len(mistral_messages[r])].content
         = <<"Previous messages:\n", "X", "\n", "Y", "\n", "Human: ", "Z">>

\* ---------------------------------------------------------------- C8
FormValues(q) ==
  [k \in Keys |-> IF k = KeySystems THEN q.systems_used
                  ELSE IF k = KeyObservations THEN q.initial_observations
                  ELSE q.initial_errors]
Onboarding(ms) == <<ms[3].content, ms[5].content, ms[7].content>>
Triple(info) == <<info[KeySystems], info[KeyObservations], info[KeyErrors]>>

\* C8 as stated: a GET to /api/initial_information carrying the three values
\* overwrites the three onboarding fields with them.
C8_ApiInitialInformation ==
  [][(nreq' = nreq + 1 /\ request'.path = PathApiInitial)
       => system_information' = FormValues(request'.query)]_vars

\* C8 amended: a GET to /initial_information carrying the three values
\* overwrites the three onboarding fields with them, no other step changes
\* them, and a relay that starts sends the current three values upstream.
C8_InitialInformation ==
  [][/\ IF nreq' = nreq + 1 /\ request'.path = PathInitial
        THEN system_information' = FormValues(request'.query)
        ELSE system_information' = system_information
     /\ \A r \in Relays : Started(r) =>
          Onboarding(mistral_messages'[r]) = Triple(system_information)]_vars

\* a relay started after a submission carries the submitted values
C8_Witness ==
  \E r \in AiRelays :
    /\ pc[r] = "stream"
    /\ Cardinality(submissions) = 1
    /\ \E f \in submissions : Onboarding(mistral_messages[r]) = Triple(FormValues(f))
    /\ Onboarding(mistral_messages[r]) # <<Empty, Empty, Empty>>

\* ---------------------------------------------------------------- C9
\* C9: every step leaves the history unchanged, extends it by one entry at the
\* end, or empties it.
C9_AppendOnly ==
  [][\/ message_history' = message_history
     \/ /\ Len(message_history') = Len(message_history) + 1
        /\ SubSeq(message_history', 1, Len(message_history)) = message_history
     \/ message_history' = <<>>]_vars

\* a second entry has been appended behind a different first one
C9_Witness == Len(message_history) = 2 /\ message_history[1] # message_history[2]

\* ---------------------------------------------------------------- C10
\* C10: the three onboarding values a relay sent upstream are the three values
\* of one submission, or the three initial empty values.
C10_NoMixedOnboarding ==
  \A r \in AiRelays :
    mistral_messages[r] # <<>> =>
      Onboarding(mistral_messages[r]) \in
        {<<Empty, Empty, Empty>>} \cup {Triple(FormValues(f)) : f \in submissions}

\* a submission arrives while a relay that read the earlier values is suspended
C10_Witness ==
  \E r \in AiRelays :
    /\ pc[r] = "yielded"
    /\ request.path = PathInitial
    /\ submissions # {}
    /\ Onboarding(mistral_messages[r]) # Triple(system_information)

\* ---------------------------------------------------------------- C11
Aborted(r) == pc[r] = "aborted"

\* C11: the step on which the upstream stream fails changes neither the
\* history nor what the relay has emitted; an aborted relay has appended
\* nothing and emitted no heartbeat, its frames are the content frames of the
\* tokens that arrived before the failure, and from then on it takes no step:
\* no frame, no further chunk, no second upstream call.
C11_AbortOnFailure ==
  [][\A r \in Relays : pc'[r] = "aborted" =>
       /\ pc[r] # "aborted" => message_history' = message_history
       /\ log'[r] = log[r]
       /\ chunks'[r] = chunks[r]
       /\ mistral_messages'[r] = mistral_messages[r]
       /\ \A i \in 1..Len(log'[r]) : log'[r][i].kind = "content"
       /\ Len(log'[r]) = NonEmpty(chunks'[r])]_vars

\* a relay failed after it had emitted a content frame
C11_Witness == \E r \in AiRelays : Aborted(r) /\ Positions(r, "content") # {}

\* ---------------------------------------------------------------- C12
Roles(ms) == [i \in 1..Len(ms) |-> ms[i].role]

\* C12: a relay sends upstream eight messages: the system instruction; for
\* systems used, initial observations and initial errors in that order, the
\* fixed assistant question and then a user message holding the field's current
\* value; and last the user message with the history and the prompt.
C12_EightMessages ==
  [][\A r \in Relays : Started(r) =>
       LET ms == mistral_messages'[r] IN
       /\ Roles(ms) = <<"system", "assistant", "user", "assistant", "user", "assistant", "user", "user">>
       /\ ms[1].content = <<"Your job is to help software developers and system engineers to fix and report major incidents for their systems.">>
       /\ ms[2].content = <<"What systems are you using for your Application?">>
       /\ ms[3].content = system_information["Systems being used"]
       /\ ms[4].content = <<"What are your initial observations for you incident?">>
       /\ ms[5].content = system_information["Initial Observations"]
       /\ ms[6].content = <<"Have you had any initial error messages?">>
       /\ ms[7].content = system_information["Initial Error messages"]
       /\ StartsWith(ms[8].content, <<"Previous messages:\n">>)
       /\ SubSeq(ms[8].content, Len(ms[8].content) - Len(prompt[r]), Len(ms[8].content))
            = <<"Human: ">> \o prompt[r]]_vars

\* a relay started with three different answers, one of them empty
C12_Witness ==
  \E r \in Relays :
    /\ pc[r] = "stream"
    /\ Len(mistral_messages[r]) = 8
    /\ Triple(system_information) = << <<"D">>, Empty, <<"F">> >>
    /\ Onboarding(mistral_messages[r]) = << <<"D">>, Empty, <<"F">> >>

\* ---------------------------------------------------------------- C13
FrameKinds == {"first", "content", "heartbeat"}
FramePositions(r) == {i \in 1..Len(log[r]) : log[r][i].kind \in FrameKinds}

\* frames i and j of relay r with no frame between them
Consecutive(r, i, j) ==
  /\ i \in FramePositions(r) /\ j \in FramePositions(r) /\ i < j
  /\ \A k \in FramePositions(r) : ~(i < k /\ k < j)

SleepsBetween(r, i, j) == Cardinality({k \in Positions(r, "sleep") : i < k /\ k < j})

\* C13 as stated: the empty path emits one first frame, and every heartbeat
\* frame, on either path, comes one timer wait after the frame before it (the
\* first frame or the previous heartbeat).
C13_WaitBeforeEveryHeartbeat ==
  \A r \in Relays :
    /\ r \in EmptyRelays => Cardinality(Positions(r, "first")) <= 1
    /\ \A i, j \in 1..Len(log[r]) :
         (Consecutive(r, i, j) /\ log[r][i].kind \in {"first", "heartbeat"}
                               /\ log[r][j].kind = "heartbeat")
           => SleepsBetween(r, i, j) = 1

\* C13 amended: the empty path emits one first frame; the heartbeat loop emits
\* its first frame on entry, with no wait after the frame before it (the first
\* frame of the empty path, the last content frame of a generation); every
\* later heartbeat frame comes exactly one timer wait after the previous one.
C13_WaitBetweenHeartbeats ==
  \A r \in Relays :
    /\ r \in EmptyRelays /\ log[r] # <<>> =>
         log[r][1].kind = "first" /\ Cardinality(Positions(r, "first")) = 1
    /\ \A i, j \in 1..Len(log[r]) :
         (Consecutive(r, i, j) /\ log[r][j].kind = "heartbeat")
           => SleepsBetween(r, i, j) = IF log[r][i].kind = "heartbeat" THEN 1 ELSE 0

\* the empty path after its second wait: a first frame and two heartbeats
C13_Witness ==
  \E r \in EmptyRelays : Len(Frames(r)) = 3 /\ Cardinality(Positions(r, "sleep")) = 2

\* ---------------------------------------------------------------- C14
Idle(r) == pc[r] = "sleeping"
Heartbeats(r) == Cardinality(Positions(r, "heartbeat"))

\* a relay in Idle-heartbeat stays there
IdleIsTerminal == [][\A r \in Relays : Idle(r) => Idle(r)']_vars

\* a relay waiting on its upstream stream emits a frame only with a chunk and
\* reaches the heartbeat only through the end of the stream
SilentWhileWaiting ==
  [][\A r \in Relays : pc[r] = "stream" =>
       /\ log'[r] # log[r] => (chunks'[r] # chunks[r] \/ pc'[r] = "heartbeat")
       /\ ~Idle(r)']_vars

\* C14: a relay with an empty prompt, and a relay whose upstream stream has
\* completed, eventually reaches Idle-heartbeat; an idle relay stays idle and
\* emits a further heartbeat frame as long as timer expiries remain; a relay
\* whose upstream neither delivers nor completes emits nothing and is not idle.
C14_IdleHeartbeat ==
  /\ \A r \in Relays : (kind[r] = "empty_response") ~> Idle(r)
  /\ \A r \in Relays : Completed(r) ~> Idle(r)
  /\ \A r \in Relays : \A n \in 0..(MaxWakes + 1) :
       (Idle(r) /\ Heartbeats(r) = n /\ TotalWakes < MaxWakes)
         ~> (Heartbeats(r) > n \/ TotalWakes >= MaxWakes)
  /\ IdleIsTerminal
  /\ SilentWhileWaiting

\* ---------------------------------------------------------------- C15
\* the text a frame renders, if it is one
Rendered(frame) == [i \in 1..(Len(frame) - 4) |-> JsonUnescapeAtom(frame[i + 2])]
WellFormed(frame) == Renders(frame, Rendered(frame))

\* C15: every item a relay yields, as first frame, content frame or heartbeat,
\* is a "data:" event ended by a blank line that renders some text, and none
\* is the empty payload.
C15_WellFormedFrames ==
  \A r \in Relays : \A i \in FramePositions(r) :
    log[r][i].data # Empty /\ WellFormed(log[r][i].data)

\* ---------------------------------------------------------------- C16
\* C16: a reset leaves every relay as it is, and a relay whose stream ends
\* appends its entry to the history as it then stands, whether or not a reset
\* was served while it was generating: after the completion the history is
\* what was appended since the reset, this entry last.
C16_ResetKeepsRelays ==
  [][/\ resets' # resets => relayvars' = relayvars
     /\ \A r \in Relays : (pc[r] = "stream" /\ pc'[r] = "heartbeat") =>
          message_history' = Append(message_history, MessageHistoryModel(output[r]))]_vars

\* a reset was served while a relay was generating, and the relay then
\* completed: the history holds its entry, and nothing else
C16_Witness ==
  \E r \in interrupted :
    /\ Completed(r)
    /\ NonEmpty(chunks[r]) >= 1
    /\ message_history = <<MessageHistoryModel(output[r])>>

\* ---------------------------------------------------------------- C17
\* C17: a relay on the empty-prompt path never sends messages upstream and
\* never receives a chunk, builds no output and appends nothing; each of its
\* steps leaves the history and the onboarding fields as they were.
C17_EmptyPathFrame ==
  [][\A r \in Relays : kind'[r] = "empty_response" =>
       /\ mistral_messages'[r] = <<>>
       /\ chunks'[r] = <<>>
       /\ output'[r] = Empty
       /\ \A i \in 1..Len(log'[r]) : log'[r][i].kind \notin {"content", "append"}
       /\ (log'[r] # log[r] \/ pc'[r] # pc[r]) => shared' = shared]_vars

\* an empty-prompt relay in its heartbeat next to a history that holds an entry
C17_Witness ==
  \E r \in EmptyRelays :
    /\ Idle(r)
    /\ message_history # <<>>
    /\ \A i \in 1..Len(message_history) : message_history[i].message # Empty

====
